---------------------------- MODULE Spec2Model ----------------------------
(***************************************************************************)
(* A model of the DKIM verifier of mschneider82/dkim.                      *)
(*                                                                         *)
(* Byte strings are sequences of atoms.  An atom is one byte ("a", " ",    *)
(* "\r", "\n", ";", "=", ...) or an indivisible chunk of bytes that none   *)
(* of the modelled operations looks into ("rsa-sha256", "example.com").    *)
(* A nil error is NIL.  A nil slice is the empty sequence wherever the code *)
(* only takes its length or compares its bytes; where the code tests a     *)
(* slice or a pointer against nil, the value carries that as a field.      *)
(***************************************************************************)
EXTENDS Naturals, Integers, Sequences, FiniteSets, TLC

VARIABLES
    pc,              \* position of the operation under way
    mailBody,        \* Dkim.Mail.Body: the bytes the body reader yields
    blankLines,      \* number of CRLF appended to mailBody before hashing
    IsBodyRelaxed,   \* Dkim.IsBodyRelaxed
    bodyW,           \* the bytes readBodyTo wrote to its writer
    sigHeader,       \* Dkim.Mail.Header.Get(Dkim.HeaderName)
    parsed,          \* what NewDKIM returned: [err] or [err, Dkim]
    hasherBranch,    \* the branch GetHasher took, NIL before it is called
    mailMsg,         \* the bytes of the message up to its body
    mail,            \* [Header, RawMailHeader] read from mailMsg
    headerW,         \* the arguments of GetHeaderHash's writes, in order
    dkim,            \* the verification context Dkim that Verify runs on
    cache,           \* what the key cache holds for the query name
    log,             \* the calls of Verify and of the CustomHandlers, in order
    public_key,      \* GetPublicKey's local: the TXT record obtained
    result,          \* what the last Verify returned
    calls            \* number of Verify calls begun

vars == <<pc, mailBody, blankLines, IsBodyRelaxed, bodyW,
          sigHeader, parsed, hasherBranch, mailMsg, mail, headerW,
          dkim, cache, log, public_key, result, calls>>

verifyVars == <<dkim, cache, log, public_key, result, calls>>

bodyVars == <<mailBody, blankLines, IsBodyRelaxed, bodyW>>
parseVars == <<sigHeader, parsed, hasherBranch>>
headerVars == <<mailMsg, mail, headerW>>

\* the variables an operation does not use keep these values
BodyIdle == mailBody = <<>> /\ blankLines = 0 /\ IsBodyRelaxed = FALSE /\ bodyW = <<>>
ParseIdle == sigHeader = <<>> /\ parsed = [err |-> "nil"] /\ hasherBranch = "nil"
HeaderIdle == mailMsg = <<>> /\ mail = <<>> /\ headerW = <<>>
VerifyIdle ==
    /\ dkim = <<>> /\ cache = [hit |-> FALSE] /\ log = <<>>
    /\ public_key = <<>> /\ result = FALSE /\ calls = 0

NIL == "nil"

CR == "\r"
LF == "\n"
SP == " "
TAB == "\t"
CRLF == <<CR, LF>>

----------------------------------------------------------------------------
(* Helpers on byte strings (Go's strings / bytes packages).                *)

\* s[from..] ; empty when from > Len(s)
Drop(s, n) == SubSeq(s, n + 1, Len(s))

Take(s, n) == SubSeq(s, 1, n)

\* index of the first occurrence of atom c in s, 0 when there is none
IndexOf(s, c) ==
    IF \E i \in 1..Len(s) : s[i] = c
    THEN CHOOSE i \in 1..Len(s) : s[i] = c /\ \A j \in 1..(i - 1) : s[j] # c
    ELSE 0

\* bytes.TrimRight(s, cutset)
RECURSIVE TrimRight(_, _)
TrimRight(s, cutset) ==
    IF Len(s) > 0 /\ s[Len(s)] \in cutset
    THEN TrimRight(Take(s, Len(s) - 1), cutset)
    ELSE s

\* bytes.TrimLeft(s, cutset)
RECURSIVE TrimLeft(_, _)
TrimLeft(s, cutset) ==
    IF Len(s) > 0 /\ s[1] \in cutset THEN TrimLeft(Tail(s), cutset) ELSE s

\* bytes.Replace(s, [from], [to], -1) for single bytes
ReplaceByte(s, from, to) == [i \in 1..Len(s) |-> IF s[i] = from THEN to ELSE s[i]]

\* regexp `[ ]{2,}` (or `[ \t]+` with ws = {SP, TAB}) replaced by one space:
\* every maximal run of atoms of ws that the pattern matches becomes " "
RECURSIVE CollapseRuns(_, _, _)
CollapseRuns(s, ws, minRun) ==
    IF Len(s) = 0 THEN <<>>
    ELSE IF s[1] \in ws
         THEN LET rest == TrimLeft(s, ws)
                  run  == Len(s) - Len(rest)
              IN  (IF run >= minRun THEN <<SP>> ELSE Take(s, run))
                      \o CollapseRuns(rest, ws, minRun)
         ELSE <<s[1]>> \o CollapseRuns(Tail(s), ws, minRun)

----------------------------------------------------------------------------
(* Body hash: DKIM.readBodyTo, src/dkim.go 312-359.                        *)

\* the lines r.ReadBytes('\n') returns before it fails: each ends with LF;
\* bytes after the last LF come back together with io.EOF and the loop
\* breaks without using them
RECURSIVE ReadLines(_)
ReadLines(body) ==
    LET i == IndexOf(body, LF)
    IN  IF i = 0 THEN <<>>
        ELSE <<Take(body, i)>> \o ReadLines(Drop(body, i))

\* lines 331-341: the relaxed canonicalization of one line
RelaxLine(line) ==
    IF Len(line) > 2
    THEN LET t == TrimRight(line, {TAB, CR, LF, SP})
             c == IF Len(t) > 0
                  THEN LET u == CollapseRuns(ReplaceByte(t, TAB, SP), {SP}, 2)
                       IN  IF u[1] = SP THEN <<SP>> \o TrimLeft(u, {SP}) ELSE u
                  ELSE t
         IN  c \o CRLF
    ELSE line

\* lines 322-329: flush the held line (and the blank lines held before it)
FlushPrev(st) ==
    IF Len(st.prev_line) > 0
    THEN [w         |-> st.w \o st.tmp \o st.prev_line,
          tmp       |-> <<>>,
          prev_line |-> <<>>]
    ELSE st

\* lines 330-349: one iteration of the loop, after the flush
HoldLine(st, line, relaxed) ==
    IF relaxed
    THEN LET l == RelaxLine(line)
         IN  IF Len(l) > 2
             THEN [st EXCEPT !.prev_line = l]
             ELSE [st EXCEPT !.tmp = st.tmp \o CRLF]
    ELSE [st EXCEPT !.prev_line = line]

RECURSIVE ReadLoop(_, _, _)
ReadLoop(st, lines, relaxed) ==
    IF Len(lines) = 0 THEN st
    ELSE ReadLoop(HoldLine(FlushPrev(st), lines[1], relaxed), Tail(lines), relaxed)

\* lines 351-358: what is written after the loop
FinalFlush(st) ==
    IF Len(st.prev_line) > 0 /\ st.prev_line # CRLF
    THEN st.w \o st.tmp \o st.prev_line
    ELSE st.w

readBodyTo(body, relaxed) ==
    FinalFlush(ReadLoop([w |-> <<>>, tmp |-> <<>>, prev_line |-> <<>>],
                        ReadLines(body), relaxed))

\* k copies of CRLF
RECURSIVE Blank(_)
Blank(k) == IF k = 0 THEN <<>> ELSE CRLF \o Blank(k - 1)

\* body with every trailing CRLF-only line removed
RECURSIVE StripBlank(_)
StripBlank(b) ==
    IF Len(b) >= 2 /\ Drop(b, Len(b) - 2) = CRLF
       /\ (Len(b) = 2 \/ b[Len(b) - 2] = LF)
    THEN StripBlank(Take(b, Len(b) - 2))
    ELSE b

----------------------------------------------------------------------------
(* Signature header: NewDKIM and DKIM.parseDKIM, src/dkim.go 29-40, 108-185. *)

\* strings.Replace(s, " ", "", -1)
StripSpaces(s) == SelectSeq(s, LAMBDA c : c # SP)

\* strings.Split(s, sep): always at least one element
RECURSIVE Split(_, _)
Split(s, sep) ==
    LET i == IndexOf(s, sep)
    IN  IF i = 0 THEN <<s>>
        ELSE <<Take(s, i - 1)>> \o Split(Drop(s, i), sep)

\* strings.SplitN(s, sep, 2)
SplitN2(s, sep) ==
    LET i == IndexOf(s, sep)
    IN  IF i = 0 THEN <<s>> ELSE <<Take(s, i - 1), Drop(s, i)>>

\* base64.StdEncoding.DecodeString on the chunks the model uses: each atom of
\* Base64Chunks is a whole base64 group with its padding, any other atom is
\* not base64.  The result for "" is an empty slice that is not nil.
Base64Chunks == {"c2lnMQ==", "c2lnMg==", "aGFzaDE=", "aGFzaDI=",
                 "a2V5MQ==", "a2V5Mg==", "ZWMx", "anVuaw=="}

Base64Chunk(a) ==
    CASE a = "c2lnMQ==" -> <<"sig1">>
      [] a = "c2lnMg==" -> <<"sig2">>
      [] a = "aGFzaDE=" -> <<"hash1">>
      [] a = "aGFzaDI=" -> <<"hash2">>
      [] a = "a2V5MQ==" -> <<"key1">>
      [] a = "a2V5Mg==" -> <<"key2">>
      [] a = "ZWMx"     -> <<"ec1">>
      [] a = "anVuaw==" -> <<"junk">>

RECURSIVE Base64Bytes(_)
Base64Bytes(s) ==
    IF Len(s) = 0 THEN <<>> ELSE Base64Chunk(s[1]) \o Base64Bytes(Tail(s))

DecodeString(s) ==
    IF \A i \in 1..Len(s) : s[i] \in Base64Chunks
    THEN [err |-> NIL, bytes |-> Base64Bytes(s)]
    ELSE [err |-> "CorruptInputError", bytes |-> <<>>]

\* strconv.Atoi: an optional sign and at least one decimal digit
Digits == {"0", "1", "2", "3", "4", "5", "6", "7", "8", "9"}

DigitValue(c) ==
    CASE c = "0" -> 0 [] c = "1" -> 1 [] c = "2" -> 2 [] c = "3" -> 3
      [] c = "4" -> 4 [] c = "5" -> 5 [] c = "6" -> 6 [] c = "7" -> 7
      [] c = "8" -> 8 [] c = "9" -> 9

RECURSIVE Decimal(_)
Decimal(s) ==
    IF Len(s) = 0 THEN 0
    ELSE 10 * Decimal(Take(s, Len(s) - 1)) + DigitValue(s[Len(s)])

Atoi(s) ==
    LET signed == Len(s) > 0 /\ s[1] \in {"+", "-"}
        digits == IF signed THEN Tail(s) ELSE s
    IN  IF Len(digits) > 0 /\ \A i \in 1..Len(digits) : digits[i] \in Digits
        THEN [err |-> NIL,
              n   |-> IF signed /\ s[1] = "-" THEN 0 - Decimal(digits) ELSE Decimal(digits)]
        ELSE [err |-> "ErrSyntax", n |-> 0]

ErrUnsupportedVersion == "unsupported version"
ErrUnsupportedAlgorithm == "unsupported algorithm"
ErrMalformedTagValue == "malformed tag value"
ErrUnsupportedQueryType == "unsupported query type"
ErrUnsupportedTag == "unsupported tag"
\* a run-time panic (index out of range, failed type assertion)
Panic == "panic"

\* the context NewDKIM builds before parsing (lines 31-35); the zero values
\* of Go: "" for strings, nil (no bytes, no entries) for slices and maps, 0
\* for ints
NewContext(HeaderName) ==
    [HeaderName      |-> HeaderName,
     Header          |-> [Version |-> <<"1">>, Algorithm |-> <<>>,
                          Signature |-> <<>>, BodyHash |-> <<>>,
                          Canonization |-> <<>>, Domain |-> <<>>,
                          Headers |-> <<>>, Identifier |-> <<>>,
                          Length |-> 0, QueryType |-> <<>>,
                          Selector |-> <<>>, Unixtime |-> 0,
                          Expiration |-> 0, CopiedHeaders |-> {}],
     IsBodyRelaxed   |-> FALSE,
     IsHeaderRelaxed |-> FALSE,
     PublicKey       |-> [ptr |-> "nil"],
     Status          |-> [ValidBody |-> FALSE, Valid |-> FALSE,
                          HasPublicKey |-> FALSE],
     bodyHash        |-> [nil |-> TRUE, bytes |-> <<>>],
     headerHash      |-> [nil |-> TRUE, bytes |-> <<>>]]

\* lines 147-152: the names of one h= value, a name dropped when it equals
\* the name appended last (prev_key lives across the whole parse)
RECURSIVE AddHeaders(_, _)
AddHeaders(st, keys) ==
    IF Len(keys) = 0 THEN st
    ELSE AddHeaders(
            IF st.prev_key # keys[1]
            THEN [st EXCEPT !.Dkim.Header.Headers = Append(@, keys[1]),
                            !.prev_key = keys[1]]
            ELSE st,
            Tail(keys))

\* lines 175-179: the copied headers of one z= value, as a set of
\* <<name, value>> with one value per name; an entry without ":" makes
\* header_kv[1] an index out of range
RECURSIVE CopyHeaders(_, _)
CopyHeaders(map, items) ==
    IF Len(items) = 0 THEN [err |-> NIL, map |-> map]
    ELSE LET header_kv == SplitN2(items[1], ":")
         IN  IF Len(header_kv) < 2 THEN [err |-> Panic, map |-> map]
             ELSE CopyHeaders({e \in map : e[1] # header_kv[1]}
                                  \cup {<<header_kv[1], header_kv[2]>>},
                              Tail(items))

Fail(st, e) == [st EXCEPT !.err = e]

\* a mutation of AlgorithmTag: the value is stored without the check
AlgorithmTagUnchecked(st, value) == [st EXCEPT !.Dkim.Header.Algorithm = value]

\* lines 127-131: case "a"
AlgorithmTag(st, value) ==
    IF value # <<"rsa-sha1">> /\ value # <<"rsa-sha256">>
    THEN Fail(st, ErrUnsupportedAlgorithm)
    ELSE [st EXCEPT !.Dkim.Header.Algorithm = value]

\* a mutation of UnsupportedTag: an unknown tag is skipped
UnsupportedTagSkipped(st) == st

\* lines 180-181: the default case
UnsupportedTag(st) == Fail(st, ErrUnsupportedTag)

\* lines 121-182: the switch on the tag of one segment
ParseTag(st, key, value) ==
    CASE key = <<"v">> ->
            IF value # <<"1">> THEN Fail(st, ErrUnsupportedVersion)
            ELSE [st EXCEPT !.Dkim.Header.Version = value]
      [] key = <<"a">> -> AlgorithmTag(st, value)
      [] key = <<"b">> ->
            LET r == DecodeString(value)
            IN  IF r.err # NIL THEN Fail(st, ErrMalformedTagValue)
                ELSE [st EXCEPT !.Dkim.Header.Signature = r.bytes]
      [] key = <<"bh">> ->
            LET r == DecodeString(value)
            IN  IF r.err # NIL THEN Fail(st, ErrMalformedTagValue)
                ELSE [st EXCEPT !.Dkim.Header.BodyHash = r.bytes]
      [] key = <<"c">> ->
            [st EXCEPT !.Dkim.Header.Canonization = value,
                       !.Dkim.IsBodyRelaxed =
                            Len(value) >= 2
                            /\ Drop(value, Len(value) - 2) = <<"/", "relaxed">>,
                       !.Dkim.IsHeaderRelaxed =
                            Len(value) >= 1 /\ value[1] = "relaxed"]
      [] key = <<"d">> -> [st EXCEPT !.Dkim.Header.Domain = value]
      [] key = <<"h">> -> AddHeaders(st, Split(value, ":"))
      [] key = <<"i">> -> [st EXCEPT !.Dkim.Header.Identifier = value]
      [] key = <<"l">> ->
            LET r == Atoi(value)
            IN  IF r.err # NIL THEN Fail(st, ErrMalformedTagValue)
                ELSE [st EXCEPT !.Dkim.Header.Length = r.n]
      [] key = <<"q">> ->
            IF value # <<"dns/txt">> /\ value # <<"dns">>
            THEN Fail(st, ErrUnsupportedQueryType)
            ELSE [st EXCEPT !.Dkim.Header.QueryType = <<"dns/txt">>]
      [] key = <<"s">> -> [st EXCEPT !.Dkim.Header.Selector = value]
      [] key = <<"t">> ->
            LET r == Atoi(value)
            IN  IF r.err # NIL THEN Fail(st, ErrMalformedTagValue)
                ELSE [st EXCEPT !.Dkim.Header.Unixtime = r.n]
      [] key = <<"x">> ->
            LET r == Atoi(value)
            IN  IF r.err # NIL THEN Fail(st, ErrMalformedTagValue)
                ELSE [st EXCEPT !.Dkim.Header.Expiration = r.n]
      [] key = <<"z">> ->
            LET r == CopyHeaders({}, Split(value, "|"))
            IN  IF r.err # NIL THEN Fail(st, r.err)
                ELSE [st EXCEPT !.Dkim.Header.CopiedHeaders = r.map]
      [] OTHER -> UnsupportedTag(st)

\* lines 114-183: the loop over the segments; a segment without "=" is
\* skipped, the first error (or panic) ends the parse
RECURSIVE ParseItems(_, _)
ParseItems(st, items) ==
    IF Len(items) = 0 \/ st.err # NIL THEN st
    ELSE LET kvs == SplitN2(items[1], "=")
         IN  ParseItems(IF Len(kvs) # 2 THEN st
                        ELSE ParseTag(st, kvs[1], kvs[2]),
                        Tail(items))

\* header is Dkim.Mail.Header.Get(Dkim.HeaderName)
parseDKIM(Dkim, header) ==
    ParseItems([Dkim |-> Dkim, prev_key |-> <<>>, err |-> NIL],
               Split(StripSpaces(header), ";"))

\* [err, Dkim]: there is no Dkim when parseDKIM fails
NewDKIM(HeaderName, header) ==
    LET r == parseDKIM(NewContext(HeaderName), header)
    IN  IF r.err # NIL THEN [err |-> r.err]
        ELSE [err |-> NIL, Dkim |-> r.Dkim]

\* DKIM.GetHasher, lines 42-51: the branch of the switch that is taken
GetHasherBranch(Dkim) ==
    CASE Dkim.Header.Algorithm = <<"rsa-sha1">>   -> "rsa-sha1"
      [] Dkim.Header.Algorithm = <<"rsa-sha256">> -> "rsa-sha256"
      [] OTHER                                   -> "default"

GetHasher(Dkim) ==
    CASE GetHasherBranch(Dkim) = "rsa-sha1"   -> "SHA1"
      [] GetHasherBranch(Dkim) = "rsa-sha256" -> "SHA256"
      [] OTHER                               -> "SHA256"

----------------------------------------------------------------------------
(* Header hash: getRawHeaders, findDkimHeader, dkimSignatureForHash,        *)
(* canonizeHeader and GetHeaderHash, src/dkim.go 187-310.                   *)

\* strings.ToLower on a header name
ToLowerAtom(a) ==
    CASE a = "From"                    -> "from"
      [] a = "To"                      -> "to"
      [] a = "Received"                -> "received"
      [] a = "Subject"                 -> "subject"
      [] a = "DKIM-Signature"          -> "dkim-signature"
      [] a = "X-Google-DKIM-Signature" -> "x-google-dkim-signature"
      [] OTHER                         -> a

ToLower(s) == [i \in 1..Len(s) |-> ToLowerAtom(s[i])]

\* textproto.CanonicalMIMEHeaderKey on a header name
CanonicalAtom(a) ==
    CASE ToLowerAtom(a) = "from"                    -> "From"
      [] ToLowerAtom(a) = "to"                      -> "To"
      [] ToLowerAtom(a) = "received"                -> "Received"
      [] ToLowerAtom(a) = "subject"                 -> "Subject"
      [] ToLowerAtom(a) = "dkim-signature"          -> "Dkim-Signature"
      [] ToLowerAtom(a) = "x-google-dkim-signature" -> "X-Google-Dkim-Signature"
      [] OTHER                                      -> a

CanonicalMIMEHeaderKey(s) == [i \in 1..Len(s) |-> CanonicalAtom(s[i])]

\* a mail.Header is a function from canonical names to sequences of values
Values(header, key) == IF key \in DOMAIN header THEN header[key] ELSE <<>>

\* mail.Header.Get: the first value under the canonical form of key, or ""
Get(header, key) ==
    LET v == Values(header, CanonicalMIMEHeaderKey(key))
    IN  IF Len(v) = 0 THEN <<>> ELSE v[1]

AddValue(header, key, value) ==
    [k \in DOMAIN header \cup {key} |->
        IF k = key THEN Append(Values(header, key), value) ELSE header[k]]

ExtendLast(header, key, line) ==
    [header EXCEPT ![key] = [@ EXCEPT ![Len(@)] = @ \o line]]

\* the header lines of a message: up to and including the first line of at
\* most 2 bytes (getRawHeaders line 244)
RECURSIVE HeaderLines(_)
HeaderLines(lines) ==
    IF Len(lines) = 0 \/ Len(lines[1]) <= 2 THEN <<>>
    ELSE <<lines[1]>> \o HeaderLines(Tail(lines))

\* getRawHeaders, lines 238-263: st is [headers, key, err]
RECURSIVE RawHeaderLoop(_, _)
RawHeaderLoop(st, lines) ==
    IF Len(lines) = 0 \/ st.err # NIL THEN st
    ELSE LET line == lines[1]
             kv   == SplitN2(line, ":")
         IN  RawHeaderLoop(
                IF line[1] # SP /\ line[1] # TAB
                THEN IF Len(kv) = 2
                     THEN [st EXCEPT
                             !.key = CanonicalMIMEHeaderKey(kv[1]),
                             !.headers = AddValue(@, CanonicalMIMEHeaderKey(kv[1]), kv[2])]
                     ELSE st
                ELSE IF Len(Values(st.headers, st.key)) = 0
                     THEN [st EXCEPT !.err = Panic]
                     ELSE [st EXCEPT !.headers = ExtendLast(@, st.key, line)],
                Tail(lines))

getRawHeaders(msg) ==
    RawHeaderLoop([headers |-> <<>>, key |-> <<>>, err |-> NIL],
                  HeaderLines(ReadLines(msg))).headers

\* net/mail's header of the same message (mail.ReadMessage): the value of a
\* field is trimmed, a continuation line is joined by one space
RECURSIVE MailHeaderLoop(_, _)
MailHeaderLoop(st, lines) ==
    IF Len(lines) = 0 THEN st
    ELSE LET line == lines[1]
             kv   == SplitN2(line, ":")
             trim(x) == TrimLeft(TrimRight(x, {SP, TAB, CR, LF}), {SP, TAB})
         IN  MailHeaderLoop(
                IF line[1] # SP /\ line[1] # TAB
                THEN IF Len(kv) = 2
                     THEN [key     |-> CanonicalMIMEHeaderKey(kv[1]),
                           headers |-> AddValue(st.headers,
                                                CanonicalMIMEHeaderKey(kv[1]),
                                                trim(kv[2]))]
                     ELSE st
                ELSE IF Len(Values(st.headers, st.key)) = 0 THEN st
                     ELSE [st EXCEPT !.headers =
                                ExtendLast(@, st.key, <<SP>> \o trim(line))],
                Tail(lines))

ReadMessageHeader(msg) ==
    MailHeaderLoop([headers |-> <<>>, key |-> <<>>],
                   HeaderLines(ReadLines(msg))).headers

\* findDkimHeader, lines 218-228: [err, name]
findDkimHeader(mail_header) ==
    IF Get(mail_header, <<"DKIM-Signature">>) # <<>>
    THEN [err |-> NIL, name |-> "DKIM-Signature"]
    ELSE IF Get(mail_header, <<"X-Google-DKIM-Signature">>) # <<>>
         THEN [err |-> NIL, name |-> "X-Google-DKIM-Signature"]
         ELSE [err |-> "not found", name |-> ""]

\* regexp `b=[^;]+` replaced by "b=": leftmost matches, each as long as it
\* can be, none overlapping
RECURSIVE BlankSignature(_)
BlankSignature(s) ==
    IF Len(s) = 0 THEN <<>>
    ELSE IF Len(s) >= 3 /\ s[1] = "b" /\ s[2] = "=" /\ s[3] # ";"
         THEN LET i    == IndexOf(s, ";")
                  rest == IF i = 0 THEN <<>> ELSE Drop(s, i - 1)
              IN  <<"b", "=">> \o BlankSignature(rest)
         ELSE <<s[1]>> \o BlankSignature(Tail(s))

\* the header set the hash is taken from (lines 191-195, 279-286)
HashHeader(Dkim, Mail) ==
    IF Dkim.IsHeaderRelaxed THEN Mail.Header ELSE Mail.RawMailHeader

\* dkimSignatureForHash, lines 187-198
dkimSignatureForHash(Dkim, Mail) ==
    BlankSignature(Get(HashHeader(Dkim, Mail), <<Dkim.HeaderName>>))

\* regexp ` \r\n` replaced by "\r\n"
RECURSIVE DropSpaceBeforeCRLF(_)
DropSpaceBeforeCRLF(s) ==
    IF Len(s) = 0 THEN <<>>
    ELSE IF Len(s) >= 3 /\ Take(s, 3) = <<SP, CR, LF>>
         THEN CRLF \o DropSpaceBeforeCRLF(Drop(s, 3))
         ELSE <<s[1]>> \o DropSpaceBeforeCRLF(Tail(s))

\* canonizeHeader, lines 200-216
canonizeHeader(Dkim, body) ==
    IF Dkim.IsHeaderRelaxed /\ Len(body) > 0
    THEN DropSpaceBeforeCRLF(CollapseRuns(body, {SP, TAB}, 1))
    ELSE body

\* lines 279-286: dkim_sig_key
SignatureFieldName(Dkim) ==
    IF Dkim.IsHeaderRelaxed THEN "dkim-signature" ELSE "DKIM-Signature"

\* lines 288-305: the writes for the signed headers, in the order of h=
RECURSIVE SignedHeaderWrites(_, _, _)
SignedHeaderWrites(Dkim, Mail, keys) ==
    IF Len(keys) = 0 THEN <<>>
    ELSE LET key           == keys[1]
             header_key    == IF Dkim.IsHeaderRelaxed THEN ToLower(key) ELSE key
             header_values == Values(HashHeader(Dkim, Mail), CanonicalMIMEHeaderKey(key))
             header_value  == header_values[Len(header_values)]
         IN  (IF Len(header_values) = 0 THEN <<>>
              ELSE <<header_key \o <<":">>, canonizeHeader(Dkim, header_value)>>
                       \o (IF Dkim.IsHeaderRelaxed THEN <<CRLF>> ELSE <<>>))
             \o SignedHeaderWrites(Dkim, Mail, Tail(keys))

\* GetHeaderHash, lines 267-310: the sequence of hasher.Write arguments
HeaderHashWrites(Dkim, Mail) ==
    SignedHeaderWrites(Dkim, Mail, Dkim.Header.Headers)
        \o << <<SignatureFieldName(Dkim), ":">>,
              canonizeHeader(Dkim, dkimSignatureForHash(Dkim, Mail)) >>

\* the bytes a sequence of writes feeds the digest
RECURSIVE Concat(_)
Concat(ws) == IF Len(ws) = 0 THEN <<>> ELSE ws[1] \o Concat(Tail(ws))

----------------------------------------------------------------------------
(* Public key record, key resolution and Verify, src/unnamed/part_000.      *)
(* A slice or pointer that the code tests against nil is a record: a slice  *)
(* [nil, bytes], a pointer [ptr |-> "nil"] or [ptr |-> "set", rec].         *)

\* hash.Hash: the digest of the written bytes, as a term of the algorithm
\* and the input (two digests are equal exactly when both are)
Sum(hasher, written) == <<hasher>> \o written

\* GetBodyHash, src/dkim.go 361-376: the value returned
BodyHashOf(Dkim, body) ==
    IF ~Dkim.bodyHash.nil THEN Dkim.bodyHash.bytes
    ELSE Sum(GetHasher(Dkim), readBodyTo(body, Dkim.IsBodyRelaxed))

\* GetHeaderHash, src/dkim.go 267-310: the value returned
HeaderHashOf(Dkim, Mail) ==
    IF ~Dkim.headerHash.nil THEN Dkim.headerHash.bytes
    ELSE Sum(GetHasher(Dkim), Concat(HeaderHashWrites(Dkim, Mail)))

\* lines 31-51 of part_000: the switch on the tag of one segment of the TXT
\* record; st is [pk, err]
KeyTag(st, key, value) ==
    CASE key = <<"v">> ->
            IF value # <<"DKIM1">> THEN [st EXCEPT !.err = "invalid version"]
            ELSE [st EXCEPT !.pk.Version = value]
      [] key = <<"k">> -> [st EXCEPT !.pk.Key = value]
      [] key = <<"t">> -> [st EXCEPT !.pk.Tag = value]
      [] key = <<"p">> ->
            LET r == DecodeString(value)
            IN  IF r.err # NIL THEN [st EXCEPT !.err = "invalid public"]
                ELSE [st EXCEPT !.pk.PublicKey = [nil |-> FALSE, bytes |-> r.bytes]]
      [] OTHER -> st

RECURSIVE KeyItems(_, _)
KeyItems(st, items) ==
    IF Len(items) = 0 \/ st.err # NIL THEN st
    ELSE LET kvs == SplitN2(items[1], "=")
         IN  KeyItems(IF Len(kvs) # 2 THEN st ELSE KeyTag(st, kvs[1], kvs[2]),
                      Tail(items))

\* line 53: dkim_pk.PublicKey == nil
EmptyKey(pk) == pk.PublicKey.nil

\* newDKIMPublicKey, lines 19-57: [err] or [err, pk]
newDKIMPublicKey(txt) ==
    LET st == KeyItems([pk  |-> [Key |-> <<>>, Version |-> <<>>, Tag |-> <<>>,
                                 PublicKey |-> [nil |-> TRUE, bytes |-> <<>>]],
                        err |-> NIL],
                       Split(StripSpaces(txt), ";"))
    IN  IF st.err # NIL THEN [err |-> st.err]
        ELSE IF EmptyKey(st.pk) THEN [err |-> "empty"]
             ELSE [err |-> NIL, pk |-> st.pk]

\* line 59: the query name
QueryName(Dkim) ==
    Dkim.Header.Selector \o <<"._domainkey.">> \o Dkim.Header.Domain \o <<".">>

\* a mutation of AfterCacheGet: the cache is not trusted, DNS is always asked
AfterCacheGetAlwaysFetch(err) == "dnsfetch"

\* lines 67-74: where GetPublicKey goes after CacheGetHandler returned err
AfterCacheGet(err) == IF err # NIL THEN "dnsfetch" ELSE "parsekey"

\* lines 70-74, 81: where GetPublicKey goes after DnsFetchHandler returned err
AfterDnsFetch(err) == IF err = NIL THEN "cacheset" ELSE "nokey"

\* x509.ParsePKIXPublicKey on the DER bytes the model uses: [err] or
\* [err, type, id]
ParsePKIXPublicKey(der) ==
    CASE der = <<"key1">> -> [err |-> NIL, type |-> "*rsa.PublicKey", id |-> "key1"]
      [] der = <<"key2">> -> [err |-> NIL, type |-> "*rsa.PublicKey", id |-> "key2"]
      [] der = <<"ec1">>  -> [err |-> NIL, type |-> "*ecdsa.PublicKey", id |-> "ec1"]
      [] OTHER            -> [err |-> "asn1: structure error"]

\* the PKCS#1 v1.5 signature of key id over a digest taken with hasher, as a
\* term: rsa.VerifyPKCS1v15(pk, hasher, hashed, sig) succeeds exactly when
\* sig is that term
SignPKCS1v15(id, hasher, hashed) == <<"sig", id, hasher>> \o hashed

VerifyPKCS1v15(pk, hasher, hashed, sig) ==
    IF sig = SignPKCS1v15(pk.id, hasher, hashed) THEN NIL ELSE "crypto/rsa: verification error"

\* a mutation of Verdict: the body hash is left out
VerdictWithoutBody(Status) == Status.Valid /\ Status.HasPublicKey

\* line 99: the value Verify returns
Verdict(Status) == Status.ValidBody /\ Status.Valid /\ Status.HasPublicKey

----------------------------------------------------------------------------
MaxBodyLen == 5
MaxBlank == 2

BodyBytes == {"a", SP, TAB, CR, LF}

RECURSIVE SeqsUpTo(_, _)
SeqsUpTo(S, n) ==
    IF n = 0 THEN {<<>>}
    ELSE LET shorter == SeqsUpTo(S, n - 1)
         IN  shorter \cup {Append(s, x) : s \in {t \in shorter : Len(t) = n - 1}, x \in S}

InitBody ==
    /\ pc = "start"
    /\ mailBody \in SeqsUpTo(BodyBytes, MaxBodyLen)
    /\ blankLines \in 0..MaxBlank
    /\ IsBodyRelaxed \in BOOLEAN
    /\ bodyW = <<>>
    /\ ParseIdle /\ HeaderIdle /\ VerifyIdle

\* GetBodyHash on the message whose body is mailBody followed by blankLines
\* blank lines
GetBodyHash ==
    /\ pc = "start"
    /\ bodyW' = readBodyTo(mailBody \o Blank(blankLines), IsBodyRelaxed)
    /\ pc' = "done"
    /\ UNCHANGED <<mailBody, blankLines, IsBodyRelaxed, parseVars, headerVars, verifyVars>>

NextBody == GetBodyHash

SpecBody == InitBody /\ [][NextBody]_vars

----------------------------------------------------------------------------
(* Parsing: a signature header of up to MaxSegs segments, then NewDKIM and  *)
(* the first use of the hash algorithm.                                     *)
MaxSegs == 3

Segments ==
    { <<"v", "=", "1">>, <<"v", "=", "2">>,
      <<"a", "=", "rsa-sha256">>, <<SP, "a", SP, "=", SP, "rsa-sha1">>,
      <<"a", "=", "md5">>, <<"a", "=">>,
      <<"d", "=", "example.com">>,
      <<"b", "=", "c2lnMQ==">>, <<"bh", "=", "?">>,
      <<"h", "=", "From", ":", "From", ":", "To">>,
      <<"l", "=", "1", "2">>, <<"q", "=", "dns">>,
      <<"z", "=", "From", ":", "me">>, <<"z", "=", "From">>,
      <<"foo", "=", "bar">>, <<"x", "-", "y", "=", "1">>,
      <<"novalue">> }

\* the headers of at most n segments, joined by ";"
RECURSIVE Headers(_)
Headers(n) ==
    IF n = 0 THEN {<<>>}
    ELSE LET shorter == Headers(n - 1)
         IN  shorter \cup Segments
                 \cup {h \o <<";">> \o s : h \in shorter \ {<<>>}, s \in Segments}

InitParse ==
    /\ pc = "start"
    /\ sigHeader \in Headers(MaxSegs)
    /\ parsed = [err |-> NIL]
    /\ hasherBranch = NIL
    /\ BodyIdle /\ HeaderIdle /\ VerifyIdle

CallNewDKIM ==
    /\ pc = "start"
    /\ parsed' = NewDKIM("DKIM-Signature", sigHeader)
    /\ pc' = IF parsed'.err = NIL THEN "constructed" ELSE "failed"
    /\ UNCHANGED <<sigHeader, hasherBranch, bodyVars, headerVars, verifyVars>>

\* the first hash of a constructed context (GetBodyHash and GetHeaderHash
\* both start with Dkim.GetHasher().New())
CallGetHasher ==
    /\ pc = "constructed"
    /\ hasherBranch' = GetHasherBranch(parsed.Dkim)
    /\ pc' = "hashed"
    /\ UNCHANGED <<sigHeader, parsed, bodyVars, headerVars, verifyVars>>

NextParse == CallNewDKIM \/ CallGetHasher

SpecParse == InitParse /\ [][NextParse]_vars

----------------------------------------------------------------------------
(* Header hash: a message with one signature field, the context built from  *)
(* it as a caller does (findDkimHeader, NewDKIM), then GetHeaderHash.       *)
MaxSigned == 2

SignedNames == {"From", "to", "Subject", "Received"}

\* n1:n2:...
RECURSIVE JoinNames(_)
JoinNames(names) ==
    IF Len(names) = 0 THEN <<>>
    ELSE IF Len(names) = 1 THEN <<names[1]>>
         ELSE <<names[1], ":">> \o JoinNames(Tail(names))

OtherFields ==
    { <<"From", ":", SP, "me", CR, LF>> \o <<"To", ":", SP, "you", CR, LF>>,
      <<"Received", ":", SP, "a", CR, LF>> \o <<"Received", ":", SP, "b", CR, LF>>
          \o <<"From", ":", SP, SP, "me", TAB, SP, "x", SP, CR, LF>>
          \o <<"To", ":", SP, "you", CR, LF, TAB, "too", CR, LF>> }

CanonTags ==
    { <<>>,
      <<"c", "=", "relaxed", "/", "relaxed", ";", SP>>,
      <<"c", "=", "simple", "/", "simple", ";", SP>> }

\* the value of a signature field signing names, the b= tag last, first, or
\* written with blanks around its "="
SignatureValues(c, names) ==
    LET h == <<"h", "=">> \o JoinNames(names)
        d == <<"d", "=", "example.com">>
    IN  { <<"v", "=", "1", ";", SP>> \o c \o h \o <<";", SP>> \o d
              \o <<";", SP, "b", "=", "c2lnMQ==">>,
          <<"b", "=", "c2lnMQ==", ";", SP>> \o c \o h \o <<";", SP>> \o d,
          c \o h \o <<";", SP>> \o d \o <<";", SP, "b", SP, "=", SP, "c2lnMQ==">> }

InitHeader ==
    /\ pc = "start"
    /\ \E other \in OtherFields, c \in CanonTags,
          names \in SeqsUpTo(SignedNames, MaxSigned),
          name \in {"DKIM-Signature", "X-Google-DKIM-Signature", "Subject"} :
          \E value \in SignatureValues(c, names) :
              mailMsg = other \o <<name, ":", SP>> \o value \o CRLF \o CRLF
    /\ mail = <<>>
    /\ headerW = <<>>
    /\ BodyIdle /\ ParseIdle /\ VerifyIdle

\* reading the message and building the context for its signature field
Construct ==
    /\ pc = "start"
    /\ LET m == [Header |-> ReadMessageHeader(mailMsg),
                 RawMailHeader |-> getRawHeaders(mailMsg)]
           f == findDkimHeader(m.Header)
       IN  /\ mail' = m
           /\ IF f.err # NIL
              THEN /\ pc' = "failed"
                   /\ UNCHANGED <<sigHeader, parsed>>
              ELSE /\ sigHeader' = Get(m.Header, <<f.name>>)
                   /\ parsed' = NewDKIM(f.name, sigHeader')
                   /\ pc' = IF parsed'.err = NIL THEN "constructed" ELSE "failed"
    /\ UNCHANGED <<hasherBranch, mailMsg, headerW, bodyVars, verifyVars>>

CallGetHeaderHash ==
    /\ pc = "constructed"
    /\ headerW' = HeaderHashWrites(parsed.Dkim, mail)
    /\ hasherBranch' = GetHasherBranch(parsed.Dkim)
    /\ pc' = "done"
    /\ UNCHANGED <<sigHeader, parsed, mailMsg, mail, bodyVars, verifyVars>>

NextHeader == Construct \/ CallGetHeaderHash

SpecHeader == InitHeader /\ [][NextHeader]_vars

----------------------------------------------------------------------------
(* Verify: a context NewDKIM returned for a signed message, the key cache   *)
(* and DNS behind the CustomHandlers, and up to MaxCalls calls of Verify.   *)
MaxCalls == 2

TXTRecords ==
    { <<"v", "=", "DKIM1", ";", SP, "k", "=", "rsa", ";", SP, "p", "=", "a2V5MQ==">>,
      <<"v", "=", "DKIM1", ";", SP, "p", "=", "a2V5Mg==">>,
      <<"p", "=", "ZWMx">>,
      <<"p", "=", "anVuaw==">>,
      <<"v", "=", "DKIM1", ";", SP, "p", "=">>,
      <<"v", "=", "DKIM1", ";", SP, "k", "=", "rsa">>,
      <<"v", "=", "DKIM2", ";", SP, "p", "=", "a2V5MQ==">>,
      <<"p", "=", "?">> }

CachedAtStart == {t \in TXTRecords : t[Len(t)] \in {"a2V5MQ==", "a2V5Mg=="}}

AlgorithmTags == {<<>>, <<"a", "=", "rsa-sha256", ";", SP>>, <<"a", "=", "rsa-sha1", ";", SP>>}
DomainTags == {<<>>, <<"d", "=", "example.com", ";", SP>>}

SignedMessage(a, d) ==
    <<"From", ":", SP, "me", CR, LF>>
        \o <<"DKIM-Signature", ":", SP, "v", "=", "1", ";", SP>> \o a \o d
        \o <<"s", "=", "sel", ";", SP, "c", "=", "relaxed", "/", "relaxed", ";", SP,
             "h", "=", "From", ";", SP, "bh", "=", "aGFzaDE=", ";", SP,
             "b", "=", "c2lnMQ==", CR, LF>>
        \o CRLF

\* the bytes bh= and b= decode to: what the text of the header gives, or the
\* digest of this body and a signature of this header by key1
InitVerify ==
    /\ pc = "idle"
    /\ mailBody = <<"h", "i", CR, LF, CR, LF>>
    /\ \E a \in AlgorithmTags, d \in DomainTags : mailMsg = SignedMessage(a, d)
    /\ mail = [Header |-> ReadMessageHeader(mailMsg),
               RawMailHeader |-> getRawHeaders(mailMsg)]
    /\ sigHeader = Get(mail.Header, <<"DKIM-Signature">>)
    /\ parsed = NewDKIM("DKIM-Signature", sigHeader)
    /\ \E bh \in {parsed.Dkim.Header.BodyHash, BodyHashOf(parsed.Dkim, mailBody)},
          sig \in {parsed.Dkim.Header.Signature}
                    \cup {SignPKCS1v15("key1", h, HeaderHashOf(parsed.Dkim, mail)) :
                             h \in {"SHA1", "SHA256"}} :
          dkim = [parsed.Dkim EXCEPT !.Header.BodyHash = bh, !.Header.Signature = sig]
    /\ cache \in {[hit |-> FALSE]} \cup {[hit |-> TRUE, txt |-> t] : t \in CachedAtStart}
    /\ log = <<>> /\ public_key = <<>> /\ result = FALSE /\ calls = 0
    /\ hasherBranch = NIL /\ headerW = <<>>
    /\ blankLines = 0 /\ IsBodyRelaxed = FALSE /\ bodyW = <<>>

\* the caller sets Dkim.PublicKey itself
InjectPublicKey ==
    /\ pc \in {"idle", "done"}
    /\ dkim.PublicKey.ptr = "nil"
    /\ \E t \in TXTRecords :
          /\ newDKIMPublicKey(t).err = NIL
          /\ dkim' = [dkim EXCEPT !.PublicKey = [ptr |-> "set", rec |-> newDKIMPublicKey(t).pk]]
    /\ UNCHANGED <<pc, cache, log, public_key, result, calls,
                   bodyVars, parseVars, headerVars>>

\* Verify, lines 88-89
VerifyBody ==
    /\ pc \in {"idle", "done"}
    /\ calls < MaxCalls
    /\ calls' = calls + 1
    /\ IF dkim.Header.Domain # <<>>
       THEN LET h == BodyHashOf(dkim, mailBody)
            IN  /\ dkim' = [dkim EXCEPT !.bodyHash = [nil |-> FALSE, bytes |-> h],
                                        !.Status.ValidBody = (h = dkim.Header.BodyHash)]
                /\ pc' = "getkey"
       ELSE /\ pc' = "return"
            /\ UNCHANGED dkim
    /\ log' = Append(log, [op |-> "Verify"])
    /\ UNCHANGED <<cache, public_key, result, bodyVars, parseVars, headerVars>>

\* GetPublicKey, lines 64-66
KeyHeld ==
    /\ pc = "getkey"
    /\ dkim.PublicKey.ptr = "set"
    /\ pc' = "sigcheck"
    /\ UNCHANGED <<dkim, cache, log, public_key, result, calls,
                   bodyVars, parseVars, headerVars>>

\* GetPublicKey, lines 67-69: the cache answers with what it holds, or fails
CacheGet ==
    /\ pc = "getkey"
    /\ dkim.PublicKey.ptr = "nil"
    /\ \E err \in {NIL, "miss"} :
          /\ err = NIL => cache.hit
          /\ public_key' = IF err = NIL THEN cache.txt ELSE <<>>
          /\ log' = Append(log, [op |-> "CacheGet", name |-> QueryName(dkim),
                                 err |-> err, data |-> public_key'])
          /\ pc' = AfterCacheGet(err)
    /\ UNCHANGED <<dkim, cache, result, calls, bodyVars, parseVars, headerVars>>

\* GetPublicKey, line 70 (and 81, Verify line 90 when the fetch fails)
DnsFetch ==
    /\ pc = "dnsfetch"
    /\ \E err \in {NIL, "no such host"}, t \in TXTRecords :
          /\ public_key' = IF err = NIL THEN t ELSE <<>>
          /\ log' = Append(log, [op |-> "DnsFetch", name |-> QueryName(dkim),
                                 err |-> err, data |-> public_key'])
          /\ IF AfterDnsFetch(err) = "cacheset"
             THEN pc' = "cacheset" /\ UNCHANGED dkim
             ELSE /\ pc' = "return"
                  /\ dkim' = [dkim EXCEPT !.PublicKey = [ptr |-> "nil"]]
    /\ UNCHANGED <<cache, result, calls, bodyVars, parseVars, headerVars>>

\* GetPublicKey, line 71
CacheSet ==
    /\ pc = "cacheset"
    /\ cache' = [hit |-> TRUE, txt |-> public_key]
    /\ log' = Append(log, [op |-> "CacheSet", name |-> QueryName(dkim),
                           err |-> NIL, data |-> public_key])
    /\ pc' = "parsekey"
    /\ UNCHANGED <<dkim, public_key, result, calls, bodyVars, parseVars, headerVars>>

\* GetPublicKey, lines 74-80, and the assignment of Verify line 90
ParseKey ==
    /\ pc = "parsekey"
    /\ LET r == newDKIMPublicKey(public_key)
       IN  IF r.err # NIL
           THEN /\ dkim' = [dkim EXCEPT !.PublicKey = [ptr |-> "nil"]]
                /\ pc' = "return"
           ELSE /\ dkim' = [dkim EXCEPT !.Status.HasPublicKey = TRUE,
                                        !.PublicKey = [ptr |-> "set", rec |-> r.pk]]
                /\ pc' = "sigcheck"
    /\ UNCHANGED <<cache, log, public_key, result, calls,
                   bodyVars, parseVars, headerVars>>

\* Verify, lines 92-96: the type assertion pk.(*rsa.PublicKey) is evaluated
\* before GetHeaderHash and panics on a key of another type
CheckSignature ==
    /\ pc = "sigcheck"
    /\ LET pk == ParsePKIXPublicKey(dkim.PublicKey.rec.PublicKey.bytes)
           h  == HeaderHashOf(dkim, mail)
       IN  IF pk.err # NIL
           THEN pc' = "return" /\ UNCHANGED dkim
           ELSE IF pk.type # "*rsa.PublicKey"
                THEN pc' = "panic" /\ UNCHANGED dkim
                ELSE /\ dkim' = [dkim EXCEPT
                                   !.headerHash = [nil |-> FALSE, bytes |-> h],
                                   !.Status.Valid =
                                       IF VerifyPKCS1v15(pk, GetHasher(dkim), h,
                                                         dkim.Header.Signature) = NIL
                                       THEN TRUE ELSE @]
                     /\ pc' = "return"
    /\ UNCHANGED <<cache, log, public_key, result, calls,
                   bodyVars, parseVars, headerVars>>

\* Verify, line 99
Return ==
    /\ pc = "return"
    /\ result' = Verdict(dkim.Status)
    /\ pc' = "done"
    /\ UNCHANGED <<dkim, cache, log, public_key, calls,
                   bodyVars, parseVars, headerVars>>

NextVerify ==
    \/ InjectPublicKey \/ VerifyBody \/ KeyHeld \/ CacheGet \/ DnsFetch
    \/ CacheSet \/ ParseKey \/ CheckSignature \/ Return

Spec == InitVerify /\ [][NextVerify]_vars

----------------------------------------------------------------------------
(* Properties.                                                             *)

Status == dkim.Status

LastLog == log[Len(log)]

\* the segments NewDKIM sees in a header value, and the tag of a segment
Items(header) == Split(StripSpaces(header), ";")

IsTagValue(item) == IndexOf(item, "=") > 0

TagOf(item) == Take(item, IndexOf(item, "=") - 1)

RecognizedTags ==
    {"v", "a", "b", "bh", "c", "d", "h", "i", "l", "q", "s", "t", "x", "z"}

UnrecognizedTag(item) ==
    IsTagValue(item) /\ ~\E t \in RecognizedTags : TagOf(item) = <<t>>

HasUnrecognizedTag(header) ==
    \E i \in 1..Len(Items(header)) : UnrecognizedTag(Items(header)[i])

FirstUnrecognized(header) ==
    CHOOSE i \in 1..Len(Items(header)) :
        /\ UnrecognizedTag(Items(header)[i])
        /\ \A j \in 1..(i - 1) : ~UnrecognizedTag(Items(header)[j])

\* the outcome of parsing only the segments before the first unrecognized one
BeforeUnrecognized(header) ==
    ParseItems([Dkim |-> NewContext("DKIM-Signature"), prev_key |-> <<>>, err |-> NIL],
               Take(Items(header), FirstUnrecognized(header) - 1)).err

HasTag(header, t) ==
    \E i \in 1..Len(Items(header)) :
        IsTagValue(Items(header)[i]) /\ TagOf(Items(header)[i]) = <<t>>

\* C1: when Verify has returned, its result is true exactly when ValidBody,
\* Valid and HasPublicKey are all true; and whenever the body hash computed
\* for the message differs from the declared bh, the result is false
\* (whatever the signature check found).
C1_VerdictIsConjunction ==
    pc = "done" =>
        /\ result = (Status.ValidBody /\ Status.Valid /\ Status.HasPublicKey)
        /\ (BodyHashOf(dkim, mailBody) # dkim.Header.BodyHash => result = FALSE)

\* C1 witness: Verify returned false on a body hash mismatch although the key
\* was found and the signature verified.
C1_Witness ==
    /\ pc = "done"
    /\ BodyHashOf(dkim, mailBody) # dkim.Header.BodyHash
    /\ Status.Valid /\ Status.HasPublicKey /\ ~Status.ValidBody
    /\ result = FALSE

\* C2 (as stated): in relaxed body mode the bytes written for a body followed
\* by k blank lines are the bytes written for the body with all its trailing
\* blank lines removed, for every body and every k >= 0.
C2_RelaxedTrailingBlankLines ==
    (pc = "done" /\ IsBodyRelaxed) =>
        bodyW = readBodyTo(StripBlank(mailBody), TRUE)

\* C3 (as stated): a header value with a segment whose tag is not recognized
\* makes NewDKIM fail with ErrUnsupportedTag, whatever the other segments are.
C3_AlwaysUnsupportedTag ==
    (pc # "start" /\ HasUnrecognizedTag(sigHeader)) => parsed.err = ErrUnsupportedTag

\* C3 (amended): a header value with a segment whose tag is not recognized
\* never makes NewDKIM succeed; NewDKIM fails with ErrUnsupportedTag when
\* all segments before the first such segment are accepted (whatever follows,
\* wherever the segment stands), and otherwise ends as the first failing
\* segment before it makes it end.
C3_UnsupportedTagUnlessEarlierFailure ==
    (pc # "start" /\ HasUnrecognizedTag(sigHeader)) =>
        /\ parsed.err # NIL
        /\ parsed.err = IF BeforeUnrecognized(sigHeader) = NIL
                        THEN ErrUnsupportedTag
                        ELSE BeforeUnrecognized(sigHeader)

\* C3 witness: the unrecognized tag stands between two segments with
\* recognized tags, and NewDKIM failed with ErrUnsupportedTag.
C3_Witness ==
    /\ pc = "failed"
    /\ HasUnrecognizedTag(sigHeader)
    /\ FirstUnrecognized(sigHeader) = 2
    /\ Len(Items(sigHeader)) = 3
    /\ \A i \in {1, 3} : IsTagValue(Items(sigHeader)[i])
                            /\ ~UnrecognizedTag(Items(sigHeader)[i])
    /\ parsed.err = ErrUnsupportedTag

\* C4 (as stated): once GetPublicKey has obtained a public key record from
\* the cache or from DNS, a failure of the signature stage (key bytes that
\* are not DER, a key of any type, a signature that does not verify) ends
\* with Verify returning false and Valid false, never with a panic.
C4_SignatureStageNeverPanics ==
    Status.HasPublicKey =>
        /\ pc # "panic"
        /\ pc = "done" =>
              LET pk == ParsePKIXPublicKey(dkim.PublicKey.rec.PublicKey.bytes)
              IN  (\/ pk.err # NIL
                   \/ VerifyPKCS1v15(pk, GetHasher(dkim), HeaderHashOf(dkim, mail),
                                     dkim.Header.Signature) # NIL)
                      => (result = FALSE /\ ~Status.Valid)

\* a call of Verify in which the cache get and the DNS fetch both failed
TotalFailure ==
    /\ Len(log) >= 2
    /\ LastLog.op = "DnsFetch" /\ LastLog.err # NIL
    /\ log[Len(log) - 1].op = "CacheGet" /\ log[Len(log) - 1].err # NIL

\* C5: every handler is called with the query name
\* <selector>._domainkey.<domain>. ; the cache get is the first handler a
\* Verify calls; the DNS fetch is called only right after a failed cache
\* get; the cache set only right after a successful DNS fetch, with its name
\* and its bytes; and a Verify whose cache get and DNS fetch both failed
\* returns false with HasPublicKey and Valid false and no header hash taken.
C5_LookasideOrder ==
    /\ \A i \in 1..Len(log) :
          /\ log[i].op # "Verify" =>
                log[i].name = dkim.Header.Selector \o <<"._domainkey.">>
                                  \o dkim.Header.Domain \o <<".">>
          /\ log[i].op = "CacheGet" => (i > 1 /\ log[i - 1].op = "Verify")
          /\ log[i].op = "DnsFetch" =>
                (i > 1 /\ log[i - 1].op = "CacheGet" /\ log[i - 1].err # NIL)
          /\ log[i].op = "CacheSet" =>
                (i > 1 /\ log[i - 1].op = "DnsFetch" /\ log[i - 1].err = NIL
                       /\ log[i - 1].name = log[i].name
                       /\ log[i - 1].data = log[i].data)
    /\ (TotalFailure /\ pc \in {"return", "done"}) =>
          /\ ~Status.HasPublicKey /\ ~Status.Valid /\ dkim.headerHash.nil
          /\ pc # "sigcheck"
          /\ (pc = "done" => result = FALSE)

\* C5 witness: a first Verify missed the cache, fetched and stored the
\* record; a second one found neither cache entry nor DNS record and returned.
C5_Witness ==
    /\ pc = "done" /\ TotalFailure
    /\ \E i \in 1..Len(log) : log[i].op = "CacheSet"

\* C6 (as stated): NewDKIM fails, or Version is "1" and Algorithm is rsa-sha1
\* or rsa-sha256; the default branch of GetHasher is never taken.
C6_AlgorithmAlwaysRecognized ==
    /\ pc \in {"constructed", "hashed"} =>
          /\ parsed.Dkim.Header.Version = <<"1">>
          /\ parsed.Dkim.Header.Algorithm \in {<<"rsa-sha1">>, <<"rsa-sha256">>}
    /\ hasherBranch # "default"

\* C6 (amended): NewDKIM fails, or Version is "1" and Algorithm is rsa-sha1,
\* rsa-sha256 or, exactly when the header has no a= tag, empty; the default
\* branch of GetHasher is taken exactly by the contexts built from a header
\* without an a= tag.
C6_AlgorithmRecognizedOrAbsent ==
    /\ pc \in {"constructed", "hashed"} =>
          /\ parsed.Dkim.Header.Version = <<"1">>
          /\ parsed.Dkim.Header.Algorithm \in {<<>>, <<"rsa-sha1">>, <<"rsa-sha256">>}
          /\ (parsed.Dkim.Header.Algorithm = <<>>) <=> ~HasTag(sigHeader, "a")
    /\ pc = "hashed" => ((hasherBranch = "default") <=> ~HasTag(sigHeader, "a"))

\* C6 witness: a header with tags but no a= tag was accepted and its first
\* hash took the default branch.
C6_Witness ==
    /\ pc = "hashed" /\ hasherBranch = "default"
    /\ HasTag(sigHeader, "d") /\ ~HasTag(sigHeader, "a")

\* the TXT record has no p tag, or its (last) p tag has an empty value
NoKeyPayload(txt) ==
    LET items == Items(txt)
        ps    == {i \in 1..Len(items) : IsTagValue(items[i]) /\ TagOf(items[i]) = <<"p">>}
    IN  \/ ps = {}
        \/ \E i \in ps : (\A j \in ps : j <= i) /\ Len(items[i]) = 2

\* C7 (as stated): newDKIMPublicKey returns an error for a TXT record whose p
\* tag is absent or empty, so that HasPublicKey is only ever set for a record
\* with a p value, held with PublicKey bytes that are not empty.
C7_EmptyKeyRejected ==
    Status.HasPublicKey =>
        /\ ~NoKeyPayload(public_key)
        /\ newDKIMPublicKey(public_key).err = NIL
        /\ dkim.PublicKey.ptr = "set"
        /\ Len(dkim.PublicKey.rec.PublicKey.bytes) > 0

\* every line ends with CRLF and holds no other CR or LF
RECURSIVE CRLFTerminated(_)
CRLFTerminated(b) ==
    \/ Len(b) = 0
    \/ LET i == IndexOf(b, LF)
       IN  /\ i >= 2 /\ b[i - 1] = CR
           /\ IndexOf(Take(b, i - 2), CR) = 0
           /\ CRLFTerminated(Drop(b, i))

\* C8 (as stated): in simple body mode the bytes written for a body of
\* CRLF-terminated lines followed by k >= 1 blank lines are the bytes written
\* for the body alone.
C8_SimpleTrailingBlankLines ==
    (pc = "done" /\ ~IsBodyRelaxed /\ CRLFTerminated(mailBody) /\ blankLines >= 1) =>
        bodyW = readBodyTo(mailBody, FALSE)

\* the value of a signature field with the value of its b tag emptied
RECURSIVE JoinItems(_)
JoinItems(items) ==
    IF Len(items) = 1 THEN items[1]
    ELSE items[1] \o <<";">> \o JoinItems(Tail(items))

EmptiedSignatureTag(value) ==
    LET items == Split(value, ";")
    IN  JoinItems([i \in 1..Len(items) |->
            IF IsTagValue(items[i])
               /\ SelectSeq(TagOf(items[i]), LAMBDA c : c \notin {SP, TAB, CR, LF}) = <<"b">>
            THEN TagOf(items[i]) \o <<"=">>
            ELSE items[i]])

\* C9 (as stated): the last thing GetHeaderHash writes is the signature field
\* the context was built from: its own name (lower-cased in relaxed mode) and
\* ":", then its canonicalized value with the value of the b tag emptied.
C9_OwnSignatureFieldLast ==
    pc = "done" =>
        LET D == parsed.Dkim
            n == Len(headerW)
        IN  /\ n >= 2
            /\ headerW[n - 1] = << (IF D.IsHeaderRelaxed THEN ToLowerAtom(D.HeaderName)
                                    ELSE D.HeaderName), ":" >>
            /\ headerW[n] = canonizeHeader(D,
                   EmptiedSignatureTag(Get(HashHeader(D, mail), <<D.HeaderName>>)))

\* C10 (as stated): when Verify has returned, Valid implies HasPublicKey,
\* whether the key record came from the handlers or was set in the context.
C10_ValidImpliesHasPublicKey ==
    pc = "done" => (Status.Valid => Status.HasPublicKey)

=============================================================================
